---- MODULE Spec2Model ----
(***************************************************************************)
(* Model of the CO2 emission analyzer ("ADS individual project.py"):       *)
(* EmissionLinkedList (a singly linked list of (year, emission) nodes kept *)
(* in year order) and EmissionAnalyzer (country -> list dictionary, yearly *)
(* totals dictionary, undo stack, top-N selection with heapq).             *)
(*                                                                         *)
(* Representation.                                                         *)
(*  - A linked list is the sequence of its nodes from head to tail; a node *)
(*    is a record [year, emission].  head = None is the empty sequence.    *)
(*  - country_emission_data is a Python dict, which iterates in insertion  *)
(*    order of its keys: a sequence of [country, list] entries.            *)
(*  - global_yearly_totals is a dict used only by key: a function whose    *)
(*    DOMAIN is the set of keys.                                           *)
(*  - Emissions are floats in the program.  The model draws them from      *)
(*    small integers, on which float addition and subtraction are exact;   *)
(*    rounding of non-representable sums is outside the model.             *)
(*  - An optional value (None or v) is the sequence <<>> or <<v>>.         *)
(***************************************************************************)
EXTENDS Integers, Sequences, FiniteSets, TLC

VARIABLES
    country_emission_data,  \* dict country -> EmissionLinkedList, in key insertion order
    global_yearly_totals,   \* dict year -> total
    undo_stack,             \* list of <<"insert", country, year, emission>>
    pc,                     \* "loading" while __init__ runs _load_data, then "ready"
    last,                   \* history: the last call, its arguments, outcome and result
    pre,                    \* history: the analyzer state before the last call
    prev,                   \* history: the call before the last, if an insert or an undo
    snaps,                  \* history (SpecLog): for each undo_stack entry, the state before its insert
    replay                  \* history (SpecLoad): the analyzer that inserting the loaded rows one by one builds

vars == <<country_emission_data, global_yearly_totals, undo_stack, pc, last, pre, prev, snaps,
          replay>>

----------------------------------------------------------------------------
(* Bounds and input domains *)

MaxNodes == 3          \* nodes in all series together
MaxN == 3              \* largest n passed to get_top_n_emitting_countries
MaxTopNPending == 1    \* SpecTopN: inserts not yet undone
MaxDesyncLog == 2      \* SpecDesync: entries on undo_stack

\* Spec runs the analyzer on two countries and keeps the call history; SpecLog
\* does the same for the loading and mutating calls and also keeps, for every
\* logged insert, the analyzer as it was before it; SpecTopN runs the analyzer on
\* three countries and keeps only the last call.
Countries == {"Algeria", "Kenya"}
TopNCountries == {"Algeria", "Kenya", "Nigeria"}
UnknownCountry == "NonExistentCountry"
Years == {1, 2}
Emissions == {1, 2}
NValues == 0..MaxN

\* Python's str ordering (by code point) on the names the model uses.
NameRank(name) ==
    CASE name = "Algeria" -> 1
      [] name = "Kenya" -> 2
      [] name = "Nigeria" -> 3
      [] OTHER -> 4

----------------------------------------------------------------------------
(* EmissionNode / EmissionLinkedList *)

EmissionNode(year, emission) == [year |-> year, emission |-> emission]

EmissionLinkedList == << >>

InsertAt(list, pos, node) ==
    SubSeq(list, 1, pos) \o <<node>> \o SubSeq(list, pos + 1, Len(list))

RemoveAt(list, pos) ==
    SubSeq(list, 1, pos - 1) \o SubSeq(list, pos + 1, Len(list))

\* Mutant: the loop also passes the nodes of the same year (<= for <).
RECURSIVE insert_advance_stable(_, _, _)
insert_advance_stable(list, current, year) ==
    IF current < Len(list) /\ list[current + 1].year <= year
    THEN insert_advance_stable(list, current + 1, year)
    ELSE current

\* The while loop of insert_chronologically: current is the index of the node
\* held in `current`; it advances while current.next exists and
\* current.next.year < year.
RECURSIVE insert_advance(_, _, _)
insert_advance(list, current, year) ==
    IF current < Len(list) /\ list[current + 1].year < year
    THEN insert_advance(list, current + 1, year)
    ELSE current

\* Mutant: the traversal is skipped, the new node goes right after the head.
insert_after_head(list, year, emission) ==
    LET new_node == EmissionNode(year, emission)
    IN IF list = << >> \/ year < list[1].year
       THEN <<new_node>> \o list
       ELSE InsertAt(list, 1, new_node)

insert_chronologically(list, year, emission) ==
    LET new_node == EmissionNode(year, emission)
    IN IF list = << >> \/ year < list[1].year
       THEN <<new_node>> \o list
       ELSE InsertAt(list, insert_advance(list, 1, year), new_node)

\* Mutant: current.next = None instead of current.next.next, the tail is lost.
RECURSIVE remove_scan_truncates(_, _, _, _)
remove_scan_truncates(list, current, year, emission) ==
    IF current < Len(list)
    THEN IF list[current + 1].year = year /\ list[current + 1].emission = emission
         THEN [found |-> TRUE, list |-> SubSeq(list, 1, current)]
         ELSE remove_scan_truncates(list, current + 1, year, emission)
    ELSE [found |-> FALSE, list |-> list]

\* The while loop of remove_node: looks at current.next.
RECURSIVE remove_scan(_, _, _, _)
remove_scan(list, current, year, emission) ==
    IF current < Len(list)
    THEN IF list[current + 1].year = year /\ list[current + 1].emission = emission
         THEN [found |-> TRUE, list |-> RemoveAt(list, current + 1)]
         ELSE remove_scan(list, current + 1, year, emission)
    ELSE [found |-> FALSE, list |-> list]

\* Mutant: the traversal does not stop at the first match, every node equal to
\* (year, emission) is unlinked.
remove_node_all_matches(list, year, emission) ==
    LET differs(node) == ~(node.year = year /\ node.emission = emission)
        kept == SelectSeq(list, differs)
    IN [found |-> kept # list, list |-> kept]

\* Mutant: the last node equal to (year, emission) is unlinked, not the first.
remove_node_last_match(list, year, emission) ==
    LET matches == {k \in 1..Len(list) : list[k].year = year /\ list[k].emission = emission}
    IN IF matches = {}
       THEN [found |-> FALSE, list |-> list]
       ELSE [found |-> TRUE,
             list |-> RemoveAt(list, CHOOSE k \in matches : \A j \in matches : j <= k)]

\* Mutant: only the head is compared, the rest of the list is not searched.
remove_node_head_only(list, year, emission) ==
    IF list = << >>
    THEN [found |-> FALSE, list |-> list]
    ELSE IF list[1].year = year /\ list[1].emission = emission
         THEN [found |-> TRUE, list |-> Tail(list)]
         ELSE [found |-> FALSE, list |-> list]

\* Mutant: a matching head is reported as removed but stays linked.
remove_node_keeps_head(list, year, emission) ==
    IF list = << >>
    THEN [found |-> FALSE, list |-> list]
    ELSE IF list[1].year = year /\ list[1].emission = emission
         THEN [found |-> TRUE, list |-> list]
         ELSE remove_scan(list, 1, year, emission)

remove_node(list, year, emission) ==
    IF list = << >>
    THEN [found |-> FALSE, list |-> list]
    ELSE IF list[1].year = year /\ list[1].emission = emission
         THEN [found |-> TRUE, list |-> Tail(list)]
         ELSE remove_scan(list, 1, year, emission)

\* Mutant: the comparison is >=, a later node with the same emission replaces
\* max_node.
RECURSIVE find_max_loop_last(_, _, _)
find_max_loop_last(list, current, max_node) ==
    IF current > Len(list)
    THEN max_node
    ELSE IF list[current].emission >= list[max_node].emission
         THEN find_max_loop_last(list, current + 1, current)
         ELSE find_max_loop_last(list, current + 1, max_node)

\* The while loop of find_max_emission_year: current and max_node are indices;
\* both start at the head.
RECURSIVE find_max_loop(_, _, _)
find_max_loop(list, current, max_node) ==
    IF current > Len(list)
    THEN max_node
    ELSE IF list[current].emission > list[max_node].emission
         THEN find_max_loop(list, current + 1, current)
         ELSE find_max_loop(list, current + 1, max_node)

\* (None, None) is << >>, (year, emission) is <<year, emission>>
find_max_emission_year(list) ==
    IF list = << >>
    THEN << >>
    ELSE LET max_node == list[find_max_loop(list, 1, 1)]
         IN <<max_node.year, max_node.emission>>

get_all_records(list) ==
    [i \in 1..Len(list) |-> [year |-> list[i].year, emission |-> list[i].emission]]

----------------------------------------------------------------------------
(* dict helpers *)

Keys(d) == {d[i].country : i \in 1..Len(d)}

KeyIndex(d, country) == CHOOSE i \in 1..Len(d) : d[i].country = country

\* d[country] for a key that is present
DictItem(d, country) == d[KeyIndex(d, country)].list

\* d[country] = EmissionLinkedList() for a new key: appended to the iteration order
DictAdd(d, country) == Append(d, [country |-> country, list |-> EmissionLinkedList])

DictSetList(d, country, list) == [d EXCEPT ![KeyIndex(d, country)].list = list]

\* totals.get(year, 0.0)
TotalsGet(totals, year) == IF year \in DOMAIN totals THEN totals[year] ELSE 0

TotalsSet(totals, year, value) ==
    [y \in (DOMAIN totals) \cup {year} |-> IF y = year THEN value ELSE totals[y]]

----------------------------------------------------------------------------
(* EmissionAnalyzer: the analyzer state is [data, totals, stack] *)

EmptyDict == [y \in {} |-> 0]

\* __init__, before _load_data runs
NewAnalyzer == [data |-> << >>, totals |-> EmptyDict, stack |-> << >>]

\* Mutant: the row is appended at the tail, as if the file were already in year order.
load_row_appends(st, country, year, emission) ==
    LET d1 == IF country \notin Keys(st.data) THEN DictAdd(st.data, country) ELSE st.data
        d2 == DictSetList(d1, country,
                          Append(DictItem(d1, country), EmissionNode(year, emission)))
    IN [data |-> d2,
        totals |-> TotalsSet(st.totals, year, TotalsGet(st.totals, year) + emission),
        stack |-> st.stack]

\* One well-formed row of _load_data's loop
load_row(st, country, year, emission) ==
    LET d1 == IF country \notin Keys(st.data) THEN DictAdd(st.data, country) ELSE st.data
        d2 == DictSetList(d1, country,
                          insert_chronologically(DictItem(d1, country), year, emission))
    IN [data |-> d2,
        totals |-> TotalsSet(st.totals, year, TotalsGet(st.totals, year) + emission),
        stack |-> st.stack]

search_emissions_by_country(st, country_name) ==
    IF country_name \in Keys(st.data)
    THEN get_all_records(DictItem(st.data, country_name))
    ELSE << >>

get_total_emissions_per_year(st, year) ==
    IF year \in DOMAIN st.totals THEN <<st.totals[year]>> ELSE << >>

\* Mutant: the traversal starts at head.next, the first record is lost.
trend_skips_head(st, country_name) ==
    IF country_name \in Keys(st.data)
    THEN LET trend_data == get_all_records(DictItem(st.data, country_name))
         IN IF trend_data = << >> THEN << >> ELSE Tail(trend_data)
    ELSE << >>

get_emissions_trend_for_country(st, country_name) ==
    IF country_name \in Keys(st.data)
    THEN LET trend_data == get_all_records(DictItem(st.data, country_name))
         IN IF trend_data = << >> THEN << >> ELSE trend_data
    ELSE << >>

\* Mutant: a year the series already has is overwritten instead of added again.
insert_replaces_same_year(st, country, year, emission) ==
    LET d1 == IF country \notin Keys(st.data) THEN DictAdd(st.data, country) ELSE st.data
        list == DictItem(d1, country)
        same == {k \in 1..Len(list) : list[k].year = year}
        d2 == DictSetList(d1, country,
                          IF same = {}
                          THEN insert_chronologically(list, year, emission)
                          ELSE [list EXCEPT ![CHOOSE k \in same : TRUE] =
                                                EmissionNode(year, emission)])
    IN [data |-> d2,
        totals |-> TotalsSet(st.totals, year, TotalsGet(st.totals, year) + emission),
        stack |-> Append(st.stack, <<"insert", country, year, emission>>)]

insert_new_emission_record(st, country, year, emission) ==
    LET d1 == IF country \notin Keys(st.data) THEN DictAdd(st.data, country) ELSE st.data
        d2 == DictSetList(d1, country,
                          insert_chronologically(DictItem(d1, country), year, emission))
    IN [data |-> d2,
        totals |-> TotalsSet(st.totals, year, TotalsGet(st.totals, year) + emission),
        stack |-> Append(st.stack, <<"insert", country, year, emission>>)]

\* Mutant: the rollback forgets global_yearly_totals.
undo_rollback_keeps_total(st) ==
    LET top == st.stack[Len(st.stack)]
        popped == SubSeq(st.stack, 1, Len(st.stack) - 1)
    IN IF top[2] \in Keys(st.data)
       THEN LET r == remove_node(DictItem(st.data, top[2]), top[3], top[4])
            IN IF r.found
               THEN [st |-> [data |-> DictSetList(st.data, top[2], r.list),
                             totals |-> st.totals,
                             stack |-> popped],
                     outcome |-> "undone"]
               ELSE [st |-> [st EXCEPT !.stack = popped], outcome |-> "record_not_found"]
       ELSE [st |-> [st EXCEPT !.stack = popped], outcome |-> "country_not_found"]

\* Mutant: undo_stack.pop(0), the oldest entry is rolled back first.
undo_rollback_fifo(st) ==
    LET top == st.stack[1]
        popped == Tail(st.stack)
    IN IF top[2] \in Keys(st.data)
       THEN LET r == remove_node(DictItem(st.data, top[2]), top[3], top[4])
            IN IF r.found
               THEN [st |-> [data |-> DictSetList(st.data, top[2], r.list),
                             totals |-> TotalsSet(st.totals, top[3],
                                          TotalsGet(st.totals, top[3]) - top[4]),
                             stack |-> popped],
                     outcome |-> "undone"]
               ELSE [st |-> [st EXCEPT !.stack = popped], outcome |-> "record_not_found"]
       ELSE [st |-> [st EXCEPT !.stack = popped], outcome |-> "country_not_found"]

\* Mutant: the total is reduced before the node is looked for, whatever the
\* search finds.
undo_rollback_subtracts_first(st) ==
    LET top == st.stack[Len(st.stack)]
        popped == SubSeq(st.stack, 1, Len(st.stack) - 1)
        reduced == TotalsSet(st.totals, top[3], TotalsGet(st.totals, top[3]) - top[4])
    IN IF top[2] \in Keys(st.data)
       THEN LET r == remove_node(DictItem(st.data, top[2]), top[3], top[4])
            IN IF r.found
               THEN [st |-> [data |-> DictSetList(st.data, top[2], r.list),
                             totals |-> reduced,
                             stack |-> popped],
                     outcome |-> "undone"]
               ELSE [st |-> [data |-> st.data, totals |-> reduced, stack |-> popped],
                     outcome |-> "record_not_found"]
       ELSE [st |-> [data |-> st.data, totals |-> reduced, stack |-> popped],
             outcome |-> "country_not_found"]

\* Mutant: the option the comment at lines 430-432 leaves out is taken, a country
\* whose list becomes empty is deleted from country_emission_data.
undo_rollback_drops_empty_country(st) ==
    LET top == st.stack[Len(st.stack)]
        popped == SubSeq(st.stack, 1, Len(st.stack) - 1)
    IN IF top[2] \in Keys(st.data)
       THEN LET r == remove_node(DictItem(st.data, top[2]), top[3], top[4])
            IN IF r.found
               THEN [st |-> [data |-> IF r.list = << >>
                                      THEN RemoveAt(st.data, KeyIndex(st.data, top[2]))
                                      ELSE DictSetList(st.data, top[2], r.list),
                             totals |-> TotalsSet(st.totals, top[3],
                                          TotalsGet(st.totals, top[3]) - top[4]),
                             stack |-> popped],
                     outcome |-> "undone"]
               ELSE [st |-> [st EXCEPT !.stack = popped], outcome |-> "record_not_found"]
       ELSE [st |-> [st EXCEPT !.stack = popped], outcome |-> "country_not_found"]

\* Mutant: a total that the rollback brings to zero is deleted from
\* global_yearly_totals.
undo_rollback_deletes_zero_total(st) ==
    LET top == st.stack[Len(st.stack)]
        popped == SubSeq(st.stack, 1, Len(st.stack) - 1)
        left == TotalsGet(st.totals, top[3]) - top[4]
    IN IF top[2] \in Keys(st.data)
       THEN LET r == remove_node(DictItem(st.data, top[2]), top[3], top[4])
            IN IF r.found
               THEN [st |-> [data |-> DictSetList(st.data, top[2], r.list),
                             totals |-> IF left = 0
                                        THEN [y \in (DOMAIN st.totals) \ {top[3]} |-> st.totals[y]]
                                        ELSE TotalsSet(st.totals, top[3], left),
                             stack |-> popped],
                     outcome |-> "undone"]
               ELSE [st |-> [st EXCEPT !.stack = popped], outcome |-> "record_not_found"]
       ELSE [st |-> [st EXCEPT !.stack = popped], outcome |-> "country_not_found"]

\* Lines 419-438: pop the top entry and roll it back.  Returns the new state and
\* which message the call printed.
undo_rollback(st) ==
    LET top == st.stack[Len(st.stack)]
        popped == SubSeq(st.stack, 1, Len(st.stack) - 1)
        operation == top[1]
        country == top[2]
        year == top[3]
        emission == top[4]
    IN IF operation = "insert"
       THEN IF country \in Keys(st.data)
            THEN LET r == remove_node(DictItem(st.data, country), year, emission)
                 IN IF r.found
                    THEN [st |-> [data |-> DictSetList(st.data, country, r.list),
                                  totals |-> TotalsSet(st.totals, year,
                                               TotalsGet(st.totals, year) - emission),
                                  stack |-> popped],
                          outcome |-> "undone"]
                    ELSE [st |-> [st EXCEPT !.stack = popped],
                          outcome |-> "record_not_found"]
            ELSE [st |-> [st EXCEPT !.stack = popped], outcome |-> "country_not_found"]
       ELSE [st |-> [st EXCEPT !.stack = popped], outcome |-> "unsupported"]

\* Mutant: the empty-stack branch prints the success message.
undo_reports_success_on_empty(st) ==
    IF st.stack = << >>
    THEN [st |-> st, outcome |-> "undone"]
    ELSE undo_rollback(st)

undo_last_insertion(st) ==
    IF st.stack = << >>
    THEN [st |-> st, outcome |-> "nothing_to_undo"]
    ELSE undo_rollback(st)

----------------------------------------------------------------------------
(* Top N: (emission, country) tuples, heapq, sorted *)

\* Python's tuple comparison a < b on (emission, country)
\* Mutant: heap entries are compared by emission only, as with a key function.
TupleLess_emission_only(a, b) ==
    a[1] < b[1]

\* Mutant: the tuples are built as (country, emission), the name is compared first.
TupleLess_name_first(a, b) ==
    \/ NameRank(a[2]) < NameRank(b[2])
    \/ a[2] = b[2] /\ a[1] < b[1]

TupleLess(a, b) ==
    \/ a[1] < b[1]
    \/ a[1] = b[1] /\ NameRank(a[2]) < NameRank(b[2])

\* heapq._siftdown; positions are 0-based as in heapq, sequences 1-based
RECURSIVE siftdown_loop(_, _, _, _)
siftdown_loop(heap, startpos, pos, newitem) ==
    IF pos > startpos
    THEN LET parentpos == (pos - 1) \div 2
             parent == heap[parentpos + 1]
         IN IF TupleLess(newitem, parent)
            THEN siftdown_loop([heap EXCEPT ![pos + 1] = parent], startpos, parentpos, newitem)
            ELSE [heap EXCEPT ![pos + 1] = newitem]
    ELSE [heap EXCEPT ![pos + 1] = newitem]

siftdown(heap, startpos, pos) == siftdown_loop(heap, startpos, pos, heap[pos + 1])

\* heapq._siftup: bubble the smaller child up until a leaf, then sift down
RECURSIVE siftup_loop(_, _, _, _)
siftup_loop(heap, startpos, pos, newitem) ==
    LET endpos == Len(heap)
        childpos == 2 * pos + 1
    IN IF childpos < endpos
       THEN LET rightpos == childpos + 1
                smaller == IF rightpos < endpos
                              /\ ~TupleLess(heap[childpos + 1], heap[rightpos + 1])
                           THEN rightpos
                           ELSE childpos
            IN siftup_loop([heap EXCEPT ![pos + 1] = heap[smaller + 1]],
                           startpos, smaller, newitem)
       ELSE siftdown_loop([heap EXCEPT ![pos + 1] = newitem], startpos, pos, newitem)

heappush(heap, item) == siftdown(Append(heap, item), 0, Len(heap))

heapreplace(heap, item) == siftup_loop([heap EXCEPT ![1] = item], 0, 0, item)

\* Mutant: the heap is returned as it lies, without sorted().
heap_order(items) == items

\* sorted(items, key=lambda x: x[0], reverse=True): stable, so items with equal
\* key keep their order in `items`
RECURSIVE sorted_desc(_)
sorted_desc(items) ==
    IF items = << >>
    THEN << >>
    ELSE LET n == Len(items)
             x == items[n]
             rest == sorted_desc(SubSeq(items, 1, n - 1))
             k == Cardinality({i \in 1..Len(rest) : rest[i][1] >= x[1]})
         IN SubSeq(rest, 1, k) \o <<x>> \o SubSeq(rest, k + 1, Len(rest))

\* Mutant: the inner loop has no break and keeps the last node of the year.
last_with_year(list, i, year) ==
    LET same == {k \in i..Len(list) : list[k].year = year}
    IN IF same = {} THEN 0 ELSE CHOOSE k \in same : \A j \in same : j <= k

\* The inner while loop: index of the first node with the year, 0 if none
RECURSIVE first_with_year(_, _, _)
first_with_year(list, i, year) ==
    IF i > Len(list) THEN 0
    ELSE IF list[i].year = year THEN i
    ELSE first_with_year(list, i + 1, year)

\* Mutant: the inner loop has no break, every entry of the year is collected.
RECURSIVE entries_of_year(_, _, _)
entries_of_year(list, country, year) ==
    IF list = << >> THEN << >>
    ELSE (IF list[1].year = year THEN << <<list[1].emission, country>> >> ELSE << >>)
         \o entries_of_year(Tail(list), country, year)

RECURSIVE all_entries_for_year(_, _, _)
all_entries_for_year(d, i, year) ==
    IF i > Len(d) THEN << >>
    ELSE entries_of_year(d[i].list, d[i].country, year)
         \o all_entries_for_year(d, i + 1, year)

\* The for loop over country_emission_data.items()
RECURSIVE all_countries_for_year(_, _, _)
all_countries_for_year(d, i, year) ==
    IF i > Len(d) THEN << >>
    ELSE LET k == first_with_year(d[i].list, 1, year)
             found == IF k = 0 THEN << >> ELSE << <<d[i].list[k].emission, d[i].country>> >>
         IN found \o all_countries_for_year(d, i + 1, year)

\* Mutant: once the heap is full nothing replaces its minimum.
RECURSIVE min_heap_first_n(_, _, _, _)
min_heap_first_n(all, i, n, min_heap) ==
    IF i > Len(all) THEN min_heap
    ELSE IF Len(min_heap) < n
         THEN min_heap_first_n(all, i + 1, n, heappush(min_heap, all[i]))
         ELSE min_heap_first_n(all, i + 1, n, min_heap)

\* The for loop that fills min_heap
RECURSIVE min_heap_loop(_, _, _, _)
min_heap_loop(all, i, n, min_heap) ==
    IF i > Len(all) THEN min_heap
    ELSE IF Len(min_heap) < n
         THEN min_heap_loop(all, i + 1, n, heappush(min_heap, all[i]))
         ELSE IF all[i][1] > min_heap[1][1]
              THEN min_heap_loop(all, i + 1, n, heapreplace(min_heap, all[i]))
              ELSE min_heap_loop(all, i + 1, n, min_heap)

\* Mutant: the check reads n < 0; with n = 0 and data for the year the loop reads
\* min_heap[0] of an empty heap and the call ends in an IndexError.
top_n_accepts_zero(st, year, n) ==
    IF n < 0
    THEN << >>
    ELSE LET all == all_countries_for_year(st.data, 1, year)
         IN IF all = << >>
            THEN << >>
            ELSE IF n = 0
                 THEN << <<0, "IndexError">> >>
                 ELSE sorted_desc(min_heap_loop(all, 1, n, << >>))

get_top_n_emitting_countries(st, year, n) ==
    IF n <= 0
    THEN << >>
    ELSE LET all == all_countries_for_year(st.data, 1, year)
         IN IF all = << >>
            THEN << >>
            ELSE sorted_desc(min_heap_loop(all, 1, n, << >>))

----------------------------------------------------------------------------
(* The state machine *)

Analyzer ==
    [data |-> country_emission_data, totals |-> global_yearly_totals, stack |-> undo_stack]

RECURSIVE NodeCount(_)
NodeCount(d) == IF d = << >> THEN 0 ELSE Len(d[1].list) + NodeCount(Tail(d))

NoCall == [op |-> "init", country |-> "-", year |-> 0, emission |-> 0, n |-> 0,
           outcome |-> "-", result |-> << >>]

Call(op, country, year, emission, n, outcome, result) ==
    [op |-> op, country |-> country, year |-> year, emission |-> emission, n |-> n,
     outcome |-> outcome, result |-> result]

\* The analyzer becomes st; f is the record of the call that did it.
Becomes(st, f) ==
    /\ country_emission_data' = st.data
    /\ global_yearly_totals' = st.totals
    /\ undo_stack' = st.stack
    /\ last' = f

NoPrev == [op |-> "-", outcome |-> "-", pre |-> NewAnalyzer]

\* The call history of Spec: pre is the analyzer before the last call; prev is the
\* call before the last when it was an insert (with the analyzer before it) or an undo
History ==
    /\ pre' = Analyzer
    /\ prev' = IF last.op = "insert"
               THEN [op |-> "insert", outcome |-> last.outcome, pre |-> pre]
               ELSE IF last.op = "undo"
                    THEN [op |-> "undo", outcome |-> last.outcome, pre |-> NewAnalyzer]
                    ELSE NoPrev

Init ==
    /\ country_emission_data = NewAnalyzer.data
    /\ global_yearly_totals = NewAnalyzer.totals
    /\ undo_stack = NewAnalyzer.stack
    /\ pc = "loading"
    /\ last = NoCall
    /\ pre = NewAnalyzer
    /\ prev = NoPrev
    /\ snaps = << >>
    /\ replay = NewAnalyzer

\* pd.read_csv raises: _load_data prints the error and returns
FileNotFoundStep ==
    /\ pc = "loading"
    /\ last.op = "init"
    /\ pc' = "ready"
    /\ Becomes(Analyzer, Call("file_not_found", "-", 0, 0, 0, "error", << >>))

\* A row whose three fields parse
LoadRowStep(country, year, emission) ==
    /\ pc = "loading"
    /\ NodeCount(country_emission_data) < MaxNodes
    /\ Becomes(load_row(Analyzer, country, year, emission),
               Call("load_row", country, year, emission, 0, "ok", << >>))
    /\ UNCHANGED pc

\* A row that raises ValueError or KeyError: int() and float() run before any update
SkipRowStep ==
    /\ pc = "loading"
    /\ Becomes(Analyzer, Call("skip_row", "-", 0, 0, 0, "skipped", << >>))
    /\ UNCHANGED pc

LoadDoneStep ==
    /\ pc = "loading"
    /\ pc' = "ready"
    /\ Becomes(Analyzer, Call("load_done", "-", 0, 0, 0, "ok", << >>))

InsertStep(country, year, emission) ==
    /\ pc = "ready"
    /\ NodeCount(country_emission_data) < MaxNodes
    /\ Becomes(insert_new_emission_record(Analyzer, country, year, emission),
               Call("insert", country, year, emission, 0, "ok", << >>))
    /\ UNCHANGED pc

UndoStep ==
    /\ pc = "ready"
    /\ LET r == undo_last_insertion(Analyzer)
           top == IF undo_stack = << >> THEN <<"-", "-", 0, 0>>
                  ELSE undo_stack[Len(undo_stack)]
       IN Becomes(r.st, Call("undo", top[2], top[3], top[4], 0, r.outcome, << >>))
    /\ UNCHANGED pc

\* Mutant: the lookup creates an empty list for a country it does not find
\* (country_emission_data as a defaultdict).
SearchStep_creates_entry(country_name) ==
    /\ pc = "ready"
    /\ Becomes(IF country_name \in Keys(country_emission_data)
               THEN Analyzer
               ELSE [Analyzer EXCEPT !.data = DictAdd(@, country_name)],
               Call("search", country_name, 0, 0, 0, "ok",
                    search_emissions_by_country(Analyzer, country_name)))
    /\ UNCHANGED pc

SearchStep(country_name) ==
    /\ pc = "ready"
    /\ Becomes(Analyzer, Call("search", country_name, 0, 0, 0, "ok",
                              search_emissions_by_country(Analyzer, country_name)))
    /\ UNCHANGED pc

TrendStep(country_name) ==
    /\ pc = "ready"
    /\ Becomes(Analyzer, Call("trend", country_name, 0, 0, 0, "ok",
                              get_emissions_trend_for_country(Analyzer, country_name)))
    /\ UNCHANGED pc

TotalStep(year) ==
    /\ pc = "ready"
    /\ Becomes(Analyzer, Call("total", "-", year, 0, 0, "ok",
                              get_total_emissions_per_year(Analyzer, year)))
    /\ UNCHANGED pc

TopNStep(year, n) ==
    /\ pc = "ready"
    /\ Becomes(Analyzer, Call("top_n", "-", year, 0, n, "ok",
                              get_top_n_emitting_countries(Analyzer, year, n)))
    /\ UNCHANGED pc

\* Code outside the class appends an entry to the public attribute undo_stack;
\* no method of the class does this.
ForeignLogEntryStep(country, year, emission) ==
    /\ pc = "ready"
    /\ Len(undo_stack) < MaxDesyncLog
    /\ Becomes([Analyzer EXCEPT !.stack = Append(@, <<"insert", country, year, emission>>)],
               Call("append_log", country, year, emission, 0, "ok", << >>))
    /\ UNCHANGED pc

\* A caller takes a country's list from country_emission_data and asks it for
\* its greatest emission
FindMaxStep(country) ==
    /\ pc = "ready"
    /\ country \in Keys(country_emission_data)
    /\ Becomes(Analyzer, Call("find_max", country, 0, 0, 0, "ok",
                              find_max_emission_year(DictItem(country_emission_data, country))))
    /\ UNCHANGED pc

(* Spec: two countries, with the call history *)

LoadFileNotFound == FileNotFoundStep /\ History /\ UNCHANGED <<snaps, replay>>

LoadRow(country, year, emission) ==
    LoadRowStep(country, year, emission) /\ History /\ UNCHANGED <<snaps, replay>>

LoadSkipRow == SkipRowStep /\ History /\ UNCHANGED <<snaps, replay>>

LoadDone == LoadDoneStep /\ History /\ UNCHANGED <<snaps, replay>>

Insert(country, year, emission) ==
    InsertStep(country, year, emission) /\ History /\ UNCHANGED <<snaps, replay>>

Undo == UndoStep /\ History /\ UNCHANGED <<snaps, replay>>

Search(country_name) == SearchStep(country_name) /\ History /\ UNCHANGED <<snaps, replay>>

Trend(country_name) == TrendStep(country_name) /\ History /\ UNCHANGED <<snaps, replay>>

Total(year) == TotalStep(year) /\ History /\ UNCHANGED <<snaps, replay>>

Next ==
    \/ LoadFileNotFound
    \/ \E c \in Countries, y \in Years, e \in Emissions : LoadRow(c, y, e)
    \/ LoadSkipRow
    \/ LoadDone
    \/ \E c \in Countries, y \in Years, e \in Emissions : Insert(c, y, e)
    \/ Undo
    \/ \E c \in Countries \cup {UnknownCountry} : Search(c)
    \/ \E c \in Countries \cup {UnknownCountry} : Trend(c)
    \/ \E y \in Years : Total(y)

Spec == Init /\ [][Next]_vars

(* SpecLog: the loading and mutating calls of Spec, with the pre-insert states *)

LogInsert(country, year, emission) ==
    /\ InsertStep(country, year, emission)
    /\ History
    /\ snaps' = Append(snaps, Analyzer)
    /\ UNCHANGED replay

LogUndo ==
    /\ UndoStep
    /\ History
    /\ snaps' = IF snaps = << >> THEN snaps ELSE SubSeq(snaps, 1, Len(snaps) - 1)
    /\ UNCHANGED replay

NextLog ==
    \/ LoadFileNotFound
    \/ \E c \in Countries, y \in Years, e \in Emissions : LoadRow(c, y, e)
    \/ LoadSkipRow
    \/ LoadDone
    \/ \E c \in Countries, y \in Years, e \in Emissions : LogInsert(c, y, e)
    \/ LogUndo

SpecLog == Init /\ [][NextLog]_vars

(* SpecTopN: three countries, only the last call is kept *)

TopNLoadRow(country, year, emission) ==
    LoadRowStep(country, year, emission) /\ UNCHANGED <<pre, prev, snaps, replay>>

TopNLoadDone == LoadDoneStep /\ UNCHANGED <<pre, prev, snaps, replay>>

TopNInsert(country, year, emission) ==
    /\ Len(undo_stack) < MaxTopNPending
    /\ InsertStep(country, year, emission)
    /\ UNCHANGED <<pre, prev, snaps, replay>>

TopNUndo == UndoStep /\ UNCHANGED <<pre, prev, snaps, replay>>

TopN(year, n) == TopNStep(year, n) /\ UNCHANGED <<pre, prev, snaps, replay>>

NextTopN ==
    \/ \E c \in TopNCountries, y \in Years, e \in Emissions : TopNLoadRow(c, y, e)
    \/ TopNLoadDone
    \/ \E c \in TopNCountries, y \in Years, e \in Emissions : TopNInsert(c, y, e)
    \/ TopNUndo
    \/ \E y \in Years, n \in NValues : TopN(y, n)

SpecTopN == Init /\ [][NextTopN]_vars

(* SpecTies: three countries, top-N queries on the analyzer as _load_data leaves
   it; the scan order is the order in which the file first names the countries *)

TiesLoadRow(country, year, emission) ==
    LoadRowStep(country, year, emission) /\ UNCHANGED <<pre, prev, snaps, replay>>

TiesLoadDone == LoadDoneStep /\ UNCHANGED <<pre, prev, snaps, replay>>

TiesTopN(year, n) == TopNStep(year, n) /\ UNCHANGED <<pre, prev, snaps, replay>>

NextTies ==
    \/ \E c \in TopNCountries, y \in Years, e \in Emissions : TiesLoadRow(c, y, e)
    \/ TiesLoadDone
    \/ \E y \in Years, n \in NValues : TiesTopN(y, n)

SpecTies == Init /\ [][NextTies]_vars

(* SpecSeries: the lists as loads, inserts and undos leave them, and
   find_max_emission_year on each of them *)

SeriesLoadRow(country, year, emission) ==
    LoadRowStep(country, year, emission) /\ UNCHANGED <<pre, prev, snaps, replay>>

SeriesLoadDone == LoadDoneStep /\ UNCHANGED <<pre, prev, snaps, replay>>

SeriesInsert(country, year, emission) ==
    InsertStep(country, year, emission) /\ UNCHANGED <<pre, prev, snaps, replay>>

SeriesUndo == UndoStep /\ UNCHANGED <<pre, prev, snaps, replay>>

SeriesFindMax(country) == FindMaxStep(country) /\ UNCHANGED <<pre, prev, snaps, replay>>

NextSeries ==
    \/ \E c \in Countries, y \in Years, e \in Emissions : SeriesLoadRow(c, y, e)
    \/ SeriesLoadDone
    \/ \E c \in Countries, y \in Years, e \in Emissions : SeriesInsert(c, y, e)
    \/ SeriesUndo
    \/ \E c \in Countries : SeriesFindMax(c)

SpecSeries == Init /\ [][NextSeries]_vars

(* SpecQuery: the four queries between loads, inserts and undos; pre is the
   analyzer before the last call *)

QueryLoadRow(country, year, emission) ==
    LoadRowStep(country, year, emission) /\ pre' = Analyzer /\ UNCHANGED <<prev, snaps, replay>>

QueryLoadDone == LoadDoneStep /\ pre' = Analyzer /\ UNCHANGED <<prev, snaps, replay>>

QueryInsert(country, year, emission) ==
    InsertStep(country, year, emission) /\ pre' = Analyzer /\ UNCHANGED <<prev, snaps, replay>>

QueryUndo == UndoStep /\ pre' = Analyzer /\ UNCHANGED <<prev, snaps, replay>>

QuerySearch(country_name) ==
    SearchStep(country_name) /\ pre' = Analyzer /\ UNCHANGED <<prev, snaps, replay>>

QueryTrend(country_name) ==
    TrendStep(country_name) /\ pre' = Analyzer /\ UNCHANGED <<prev, snaps, replay>>

QueryTotal(year) == TotalStep(year) /\ pre' = Analyzer /\ UNCHANGED <<prev, snaps, replay>>

QueryTopN(year, n) == TopNStep(year, n) /\ pre' = Analyzer /\ UNCHANGED <<prev, snaps, replay>>

NextQuery ==
    \/ \E c \in Countries, y \in Years, e \in Emissions : QueryLoadRow(c, y, e)
    \/ QueryLoadDone
    \/ \E c \in Countries, y \in Years, e \in Emissions : QueryInsert(c, y, e)
    \/ QueryUndo
    \/ \E c \in Countries \cup {UnknownCountry} : QuerySearch(c)
    \/ \E c \in Countries \cup {UnknownCountry} : QueryTrend(c)
    \/ \E y \in Years : QueryTotal(y)
    \/ \E y \in Years, n \in NValues : QueryTopN(y, n)

SpecQuery == Init /\ [][NextQuery]_vars

(* SpecDesync: loads and undos, with undo_stack entries that no insert wrote, so
   that undo_last_insertion meets a log out of step with the series (lines
   433-436); pre is the analyzer before the last call, prev the call before the
   last when it was an undo *)

\* The entries written: one (year, emission) for each country and for a name
\* that is never a key; the loaded series may or may not hold an equal entry
ForeignEntries == {<<c, 1, 1>> : c \in Countries \cup {UnknownCountry}}

DesyncHistory ==
    /\ pre' = Analyzer
    /\ prev' = IF last.op = "undo"
               THEN [op |-> "undo", outcome |-> last.outcome, pre |-> NewAnalyzer]
               ELSE NoPrev
    /\ UNCHANGED <<snaps, replay>>

DesyncLoadRow(country, year, emission) ==
    LoadRowStep(country, year, emission) /\ DesyncHistory

DesyncLoadDone == LoadDoneStep /\ DesyncHistory

DesyncUndo == UndoStep /\ DesyncHistory

DesyncAppend(country, year, emission) ==
    ForeignLogEntryStep(country, year, emission) /\ DesyncHistory

NextDesync ==
    \/ \E c \in Countries, y \in Years, e \in Emissions : DesyncLoadRow(c, y, e)
    \/ DesyncLoadDone
    \/ DesyncUndo
    \/ \E t \in ForeignEntries : DesyncAppend(t[1], t[2], t[3])

SpecDesync == Init /\ [][NextDesync]_vars

(* SpecLoad: __init__ only; replay is what insert_new_emission_record makes of
   the rows that _load_data has processed, from an empty analyzer *)

ReplayFileNotFound == FileNotFoundStep /\ UNCHANGED <<pre, prev, snaps, replay>>

ReplayLoadRow(country, year, emission) ==
    /\ LoadRowStep(country, year, emission)
    /\ replay' = insert_new_emission_record(replay, country, year, emission)
    /\ UNCHANGED <<pre, prev, snaps>>

ReplaySkipRow == SkipRowStep /\ UNCHANGED <<pre, prev, snaps, replay>>

ReplayLoadDone == LoadDoneStep /\ UNCHANGED <<pre, prev, snaps, replay>>

NextLoad ==
    \/ ReplayFileNotFound
    \/ \E c \in Countries, y \in Years, e \in Emissions : ReplayLoadRow(c, y, e)
    \/ ReplaySkipRow
    \/ ReplayLoadDone

SpecLoad == Init /\ [][NextLoad]_vars

----------------------------------------------------------------------------
(* Vocabulary of the claims *)

RECURSIVE SumList(_, _)
SumList(list, year) ==
    IF list = << >> THEN 0
    ELSE (IF list[1].year = year THEN list[1].emission ELSE 0) + SumList(Tail(list), year)

\* Sum of emission over every entry of the year in every series
RECURSIVE SumYear(_, _)
SumYear(d, year) ==
    IF d = << >> THEN 0 ELSE SumList(d[1].list, year) + SumYear(Tail(d), year)

YearPresent(d, year) ==
    \E i \in 1..Len(d) : \E k \in 1..Len(d[i].list) : d[i].list[k].year = year

NonDecreasingYears(records) ==
    \A i \in 1..Len(records) : \A j \in 1..Len(records) :
        i < j => records[i].year <= records[j].year

AllNames == Countries \cup TopNCountries \cup {UnknownCountry}

----------------------------------------------------------------------------
(* C1: whenever get_total_emissions_per_year(Y) returns a value, it is the sum of
   emission over all entries of year Y present in the series; whenever it reports
   no data, no series holds an entry of year Y. *)
C1_TotalIsSumOfEntries ==
    \A y \in Years :
        LET r == get_total_emissions_per_year(Analyzer, y)
        IN /\ r # << >> => r[1] = SumYear(country_emission_data, y)
           /\ r = << >> => ~YearPresent(country_emission_data, y)

\* An undo has just succeeded, and the year it touched still has a total made of
\* entries of two countries.
C1_Witness ==
    /\ last.op = "undo"
    /\ last.outcome = "undone"
    /\ get_total_emissions_per_year(Analyzer, last.year) # << >>
    /\ \A c \in Countries :
          /\ c \in Keys(country_emission_data)
          /\ SumList(DictItem(country_emission_data, c), last.year) > 0

(* C2: in every state the records search_emissions_by_country returns, for every
   country, are in non-decreasing year order. *)
C2_SearchSortedByYear ==
    \A c \in AllNames : NonDecreasingYears(search_emissions_by_country(Analyzer, c))

\* A search has just returned three records, a later year after two entries of an
\* equal year, from a series that an undo has worked on.
C2_Witness ==
    /\ last.op = "search"
    /\ Len(last.result) = 3
    /\ last.result[1].year = last.result[2].year
    /\ last.result[2].year < last.result[3].year
    /\ prev.op = "insert"
    /\ Len(undo_stack) = 1

(* C3 as stated: after an insert immediately followed by undo, the total of the
   year as get_total_emissions_per_year reports it equals what it reported before
   the insert, and the length of the country's series is its pre-insert length. *)
C3_AsStated ==
    (last.op = "undo" /\ prev.op = "insert") =>
        /\ get_total_emissions_per_year(Analyzer, last.year)
              = get_total_emissions_per_year(prev.pre, last.year)
        /\ Len(search_emissions_by_country(Analyzer, last.country))
              = Len(search_emissions_by_country(prev.pre, last.country))

(* C3 amended: after an insert immediately followed by undo, the year has a total,
   equal to its total before the insert or to 0 when the year had none, and the
   length of the country's series is its pre-insert length. *)
C3_InsertUndoRestores ==
    (last.op = "undo" /\ prev.op = "insert") =>
        /\ last.outcome = "undone"
        /\ get_total_emissions_per_year(Analyzer, last.year)
              = <<TotalsGet(prev.pre.totals, last.year)>>
        /\ Len(search_emissions_by_country(Analyzer, last.country))
              = Len(search_emissions_by_country(prev.pre, last.country))

\* Insert then undo, on a country whose series already had an entry and for a
\* year that already had a total.
C3_Witness ==
    /\ last.op = "undo"
    /\ prev.op = "insert"
    /\ last.year \in DOMAIN prev.pre.totals
    /\ prev.pre.totals[last.year] > 0
    /\ Len(search_emissions_by_country(prev.pre, last.country)) > 0

(* C4: an undo on an empty Mutation Log reports "nothing to undo" and leaves the
   registry, every series, the yearly totals and the log as they were; this holds
   of every such undo, so also of one that follows another. *)
C4_UndoOnEmptyLogIsNoOp ==
    (last.op = "undo" /\ pre.stack = << >>) =>
        /\ last.outcome = "nothing_to_undo"
        /\ Analyzer = pre

\* Two undos in a row on an empty log, with data loaded.
C4_Witness ==
    /\ last.op = "undo"
    /\ last.outcome = "nothing_to_undo"
    /\ prev.op = "undo"
    /\ prev.outcome = "nothing_to_undo"
    /\ pre.stack = << >>
    /\ country_emission_data # << >>

----------------------------------------------------------------------------
(* Vocabulary of the top-N claims.  A country has data for a year when its series
   holds an entry of that year; where a series holds several, the country's
   emission for the year is that of the first of them in series order. *)

HasYear(list, year) == \E k \in 1..Len(list) : list[k].year = year

FirstOfYear(list, year) ==
    list[CHOOSE k \in 1..Len(list) :
            /\ list[k].year = year
            /\ \A j \in 1..(k - 1) : list[j].year # year]

Reporting(d, year) == {i \in 1..Len(d) : HasYear(d[i].list, year)}

Returned(result) == {result[i][2] : i \in 1..Len(result)}

Min(a, b) == IF a < b THEN a ELSE b

PositiveN == {n \in NValues : n > 0}

(* C5: for every year and n > 0, get_top_n_emitting_countries returns at most n
   entries, and each returned emission is at least the emission of every country
   that has data for the year and was not returned. *)
C5_TopNTakesTheLargest ==
    \A y \in Years : \A n \in PositiveN :
        LET r == get_top_n_emitting_countries(Analyzer, y, n)
            d == country_emission_data
        IN /\ Len(r) <= n
           /\ \A i \in 1..Len(r) : \A j \in Reporting(d, y) :
                 d[j].country \notin Returned(r)
                    => r[i][1] >= FirstOfYear(d[j].list, y).emission

\* A call with n = 2 when three countries report the year, the smallest of them
\* visited first and left out.
C5_Witness ==
    /\ last.op = "top_n"
    /\ last.n = 2
    /\ Len(last.result) = 2
    /\ Cardinality(Reporting(country_emission_data, last.year)) = 3
    /\ LET d == country_emission_data
       IN /\ d[1].country \notin Returned(last.result)
          /\ HasYear(d[1].list, last.year)
          /\ FirstOfYear(d[1].list, last.year).emission < last.result[2][1]

(* C6 as stated: the list get_top_n_emitting_countries returns is strictly
   descending by emission. *)
C6_AsStated ==
    \A y \in Years : \A n \in PositiveN :
        LET r == get_top_n_emitting_countries(Analyzer, y, n)
        IN \A i \in 1..(Len(r) - 1) : r[i][1] > r[i + 1][1]

(* C6 amended: the list get_top_n_emitting_countries returns is descending by
   emission, each entry's emission greater than or equal to the next one's;
   countries with equal emission are both listed. *)
C6_TopNDescending ==
    \A y \in Years : \A n \in PositiveN :
        LET r == get_top_n_emitting_countries(Analyzer, y, n)
        IN \A i \in 1..(Len(r) - 1) : r[i][1] >= r[i + 1][1]

\* A call that returned three entries, two of them with equal emission and one
\* with a different emission.
C6_Witness ==
    /\ last.op = "top_n"
    /\ Len(last.result) = 3
    /\ last.result[1][1] > last.result[2][1]
    /\ last.result[2][1] = last.result[3][1]

(* C7: for every year and n > 0, get_top_n_emitting_countries returns exactly
   min(n, number of countries with at least one entry for the year) entries. *)
C7_TopNCount ==
    \A y \in Years : \A n \in PositiveN :
        Len(get_top_n_emitting_countries(Analyzer, y, n))
            = Min(n, Cardinality(Reporting(country_emission_data, y)))

\* A call with n = 3 that returned two entries because only two of the three
\* countries report the year, one of them with two entries for it.
C7_Witness ==
    /\ last.op = "top_n"
    /\ last.n = 3
    /\ Len(last.result) = 2
    /\ Len(country_emission_data) >= 2
    /\ NodeCount(country_emission_data) = 3
    /\ \A i \in 1..Len(country_emission_data) :
          \A k \in 1..Len(country_emission_data[i].list) :
              country_emission_data[i].list[k].year = last.year

(* C8: a call of get_top_n_emitting_countries with n <= 0 returns the empty list
   and changes neither the registry, nor the yearly totals, nor the log. *)
C8_TopNRejectsNonPositive ==
    [][(last'.op = "top_n" /\ last'.n <= 0) =>
          /\ last'.result = << >>
          /\ UNCHANGED <<country_emission_data, global_yearly_totals, undo_stack>>]_vars

\* A call with n = 0 for a year three countries report, with an insert pending.
C8_Witness ==
    /\ last.op = "top_n"
    /\ last.n = 0
    /\ last.result = << >>
    /\ Cardinality(Reporting(country_emission_data, last.year)) = 3
    /\ undo_stack # << >>

----------------------------------------------------------------------------
(* C9: the Mutation Log is last-in-first-out with one rollback per logged insert.
   snaps holds, for each logged insert, the analyzer as it was before that insert.
   An undo on a non-empty log reports the most recently logged insert as undone
   and leaves the log one shorter, equal to the log before that insert; every
   series then reads as before that insert and every yearly total that existed
   before it has its value of then.  So k undos after k inserts roll the inserts
   back in reverse order to the state before the first.  An undo on the empty log
   (the (k+1)-th) reports nothing to undo. *)
C9_UndoIsLifoRollback ==
    [][(last'.op = "undo") =>
          IF undo_stack = << >>
          THEN last'.outcome = "nothing_to_undo"
          ELSE LET top == undo_stack[Len(undo_stack)]
                   snap == snaps[Len(snaps)]
               IN /\ last'.outcome = "undone"
                  /\ <<last'.country, last'.year, last'.emission>>
                        = <<top[2], top[3], top[4]>>
                  /\ undo_stack' = SubSeq(undo_stack, 1, Len(undo_stack) - 1)
                  /\ undo_stack' = snap.stack
                  /\ \A c \in AllNames :
                        search_emissions_by_country(Analyzer', c)
                           = search_emissions_by_country(snap, c)
                  /\ \A y \in DOMAIN snap.totals :
                        global_yearly_totals'[y] = snap.totals[y]]_vars

\* The undo after the one that rolled back the oldest logged insert: every insert
\* made (two countries, both years) has been rolled back, no series holds an entry
\* and nothing is left to undo.
C9_Witness ==
    /\ last.op = "undo"
    /\ last.outcome = "nothing_to_undo"
    /\ prev.op = "undo"
    /\ prev.outcome = "undone"
    /\ Len(country_emission_data) = 2
    /\ NodeCount(country_emission_data) = 0
    /\ DOMAIN global_yearly_totals = Years

(* C10: a successful undo of the logged entry (c, y, e) removes exactly one entry
   (y, e) from c's series, the other entries keeping their order, subtracts e from
   the total of year y, and leaves every other series, the registry's countries,
   the totals of the other years and the older log entries as they were. *)
C10_UndoFrame ==
    (last.op = "undo" /\ last.outcome = "undone") =>
        LET c == last.country
            y == last.year
            e == last.emission
            old == DictItem(pre.data, c)
            new == DictItem(country_emission_data, c)
        IN /\ \E k \in 1..Len(old) :
                 /\ old[k] = EmissionNode(y, e)
                 /\ new = RemoveAt(old, k)
           /\ Len(country_emission_data) = Len(pre.data)
           /\ \A i \in 1..Len(pre.data) :
                 /\ country_emission_data[i].country = pre.data[i].country
                 /\ pre.data[i].country # c
                       => country_emission_data[i].list = pre.data[i].list
           /\ DOMAIN global_yearly_totals = DOMAIN pre.totals
           /\ global_yearly_totals[y] = pre.totals[y] - e
           /\ \A y2 \in DOMAIN pre.totals :
                 y2 # y => global_yearly_totals[y2] = pre.totals[y2]
           /\ pre.stack = Append(undo_stack, <<"insert", c, y, e>>)

\* A successful undo on a series that keeps another entry, with another
\* country's series, another year's total and an older log entry in place.
C10_Witness ==
    /\ last.op = "undo"
    /\ last.outcome = "undone"
    /\ Len(DictItem(country_emission_data, last.country)) = 1
    /\ Len(country_emission_data) = 2
    /\ NodeCount(country_emission_data) = 2
    /\ undo_stack # << >>
    /\ \E y2 \in DOMAIN global_yearly_totals :
          y2 # last.year /\ global_yearly_totals[y2] > 0

----------------------------------------------------------------------------
(* C11: in every state and for every country name, known, unknown or known with an
   empty series, get_emissions_trend_for_country returns the list that
   search_emissions_by_country returns. *)
C11_TrendEqualsSearch ==
    \A c \in AllNames :
        get_emissions_trend_for_country(Analyzer, c)
            = search_emissions_by_country(Analyzer, c)

\* A trend call has just answered for a country with two records while the other
\* country is known with an empty series.
C11_Witness ==
    /\ last.op = "trend"
    /\ Len(last.result) = 2
    /\ last.result = search_emissions_by_country(Analyzer, last.country)
    /\ \E c \in Keys(country_emission_data) :
          DictItem(country_emission_data, c) = << >>

----------------------------------------------------------------------------
(* C12 as stated: loading the rows leaves the analyzer, undo_stack included, as
   inserting the same rows one by one leaves it. *)
C12_AsStated ==
    Analyzer = replay

(* C12: loading the well-formed rows r1..rk leaves country_emission_data and
   global_yearly_totals as insert_new_emission_record on r1..rk in the same order
   leaves them, and leaves undo_stack empty: loaded rows are not logged. *)
C12_LoadIsInsertWithoutLog ==
    /\ country_emission_data = replay.data
    /\ global_yearly_totals = replay.totals
    /\ undo_stack = << >>

\* The load has finished after three rows, two of them for the same country and
\* the later row carrying the earlier year; the inserts would have logged three.
C12_Witness ==
    /\ last.op = "load_done"
    /\ Len(replay.stack) = 3
    /\ \E i \in 1..2 : /\ replay.stack[i][2] = replay.stack[i + 1][2]
                       /\ replay.stack[i][3] > replay.stack[i + 1][3]

----------------------------------------------------------------------------
(* C13 as stated: once pd.read_csv has failed on a missing file there is no
   analyzer to call: construction does not complete and no operation can be
   invoked. *)
C13_NoAnalyzerAfterMissingFile ==
    last.op = "file_not_found" =>
        /\ pc # "ready"
        /\ ~ ENABLED (\E c \in Countries, y \in Years, e \in Emissions : Insert(c, y, e))
        /\ ~ ENABLED (\E c \in Countries : Search(c))

----------------------------------------------------------------------------
(* C14: after search_emissions_by_country, get_emissions_trend_for_country,
   get_total_emissions_per_year or get_top_n_emitting_countries, with any
   argument, the dictionary of series, the yearly totals and the undo stack are
   what they were before the call; for a country that is not a key, or a year
   that has no total, the call returned the empty result and no key was
   created. *)
C14_QueriesAreReadOnly ==
    last.op \in {"search", "trend", "total", "top_n"} =>
        /\ Analyzer = pre
        /\ (last.op \in {"search", "trend"} /\ last.country \notin Keys(pre.data))
              => (last.result = << >> /\ last.country \notin Keys(country_emission_data))
        /\ (last.op \in {"total", "top_n"} /\ last.year \notin DOMAIN pre.totals)
              => (last.result = << >> /\ last.year \notin DOMAIN global_yearly_totals)

\* A search for a country that is not a key has just returned on an analyzer
\* that holds data and a pending insert.
C14_Witness ==
    /\ last.op = "search"
    /\ last.country = UnknownCountry
    /\ last.result = << >>
    /\ country_emission_data # << >>
    /\ undo_stack # << >>
    /\ Analyzer = pre

----------------------------------------------------------------------------
\* The series of the state, and the result of putting node before position pos
\* (pos = Len + 1: at the end)
AllSeries == {country_emission_data[i].list : i \in 1..Len(country_emission_data)}

PlacedBefore(list, pos, node) ==
    SubSeq(list, 1, pos - 1) \o <<node>> \o SubSeq(list, pos, Len(list))

FirstIndex(S, ifNone) ==
    IF S = {} THEN ifNone ELSE CHOOSE k \in S : \A j \in S : k <= j

(* C15 as stated: insert_chronologically puts the new entry immediately before
   the first entry whose year is strictly greater, or at the end if there is
   none, so that entries of one year stay in arrival order. *)
C15_AsStated ==
    \A list \in AllSeries, y \in Years, e \in Emissions :
        insert_chronologically(list, y, e)
            = PlacedBefore(list,
                           FirstIndex({k \in 1..Len(list) : list[k].year > y}, Len(list) + 1),
                           EmissionNode(y, e))

(* C15: insert_chronologically puts the new entry at the front when the series is
   empty or the new year is strictly smaller than the head's year; otherwise
   immediately before the first entry after the head whose year is greater than
   or equal to the new year, or at the end if there is none.  A new entry thus
   goes before the entries of its own year, except the head. *)
C15_InsertPosition ==
    \A list \in AllSeries, y \in Years, e \in Emissions :
        insert_chronologically(list, y, e)
            = IF list = << >> \/ y < list[1].year
              THEN PlacedBefore(list, 1, EmissionNode(y, e))
              ELSE PlacedBefore(list,
                                FirstIndex({k \in 2..Len(list) : list[k].year >= y},
                                           Len(list) + 1),
                                EmissionNode(y, e))

\* An insert has just put its entry between two older entries of the same year.
C15_Witness ==
    /\ last.op = "insert"
    /\ LET list == DictItem(country_emission_data, last.country)
           old == DictItem(pre.data, last.country)
       IN /\ last.country \in Keys(pre.data)
          /\ Len(list) = 3
          /\ \A k \in 1..3 : list[k].year = last.year
          /\ list[2] = EmissionNode(last.year, last.emission)
          /\ list[3].emission # last.emission
          /\ old = <<list[1], list[3]>>

----------------------------------------------------------------------------
\* Position of a country in the scan of country_emission_data.items()
VisitPos(d, country) == CHOOSE i \in 1..Len(d) : d[i].country = country

(* C16 as stated: entries of equal emission in the list that
   get_top_n_emitting_countries returns are in the order in which the scan of the
   dictionary visited their countries. *)
C16_AsStated ==
    \A y \in Years : \A n \in PositiveN :
        LET r == get_top_n_emitting_countries(Analyzer, y, n)
            d == country_emission_data
        IN \A i, j \in 1..Len(r) :
              (i < j /\ r[i][1] = r[j][1]) => VisitPos(d, r[i][2]) < VisitPos(d, r[j][2])

(* C16: entries of equal emission are returned in the order in which they lie in
   the heap's array, which the comparison of (emission, country) tuples decides:
   of the entries tied at the lowest returned emission, the one whose country
   name is smallest comes first, wherever the scan visited it. *)
C16_TiesFollowHeap ==
    \A y \in Years : \A n \in PositiveN :
        LET r == get_top_n_emitting_countries(Analyzer, y, n)
            lowest == {i \in 1..Len(r) : r[i][1] = r[Len(r)][1]}
        IN \A i \in lowest : \A j \in lowest :
              (\A k \in lowest : i <= k) => NameRank(r[i][2]) <= NameRank(r[j][2])

\* A call returned three entries of equal emission in an order that is neither
\* the scan order nor the alphabetical order.
C16_Witness ==
    /\ last.op = "top_n"
    /\ Len(last.result) = 3
    /\ last.result[1][1] = last.result[3][1]
    /\ \E i \in 1..2 : VisitPos(country_emission_data, last.result[i][2])
                          > VisitPos(country_emission_data, last.result[i + 1][2])
    /\ \E i \in 1..2 : NameRank(last.result[i][2]) > NameRank(last.result[i + 1][2])

----------------------------------------------------------------------------
\* The dictionary with every key replaced by its image under f, in the same order
Renamed(d, f) == [i \in 1..Len(d) |-> [d[i] EXCEPT !.country = f[d[i].country]]]

Renamings == {f \in [TopNCountries -> TopNCountries] : \A a, b \in TopNCountries : f[a] = f[b] => a = b}

\* The scan positions of the returned countries, in the order returned
PositionsOf(d, r) == [i \in 1..Len(r) |-> VisitPos(d, r[i][2])]

EmissionsOf(r) == [i \in 1..Len(r) |-> r[i][1]]

(* C17 as stated: for two dictionaries with the same series in the same scan
   order and different country names, get_top_n_emitting_countries returns the
   same scan positions in the same order. *)
C17_AsStated ==
    \A y \in Years : \A n \in PositiveN : \A f \in Renamings :
        LET d == country_emission_data
            other == Renamed(d, f)
        IN PositionsOf(d, get_top_n_emitting_countries(Analyzer, y, n))
             = PositionsOf(other,
                           get_top_n_emitting_countries([Analyzer EXCEPT !.data = other], y, n))

(* C17: for two dictionaries with the same series in the same scan order and
   different country names, get_top_n_emitting_countries returns the same
   sequence of emissions, and a scan position returned for one and not for the
   other holds the lowest returned emission: names decide only among ties. *)
C17_NamesDecideOnlyTies ==
    \A y \in Years : \A n \in PositiveN : \A f \in Renamings :
        LET d == country_emission_data
            other == Renamed(d, f)
            r1 == get_top_n_emitting_countries(Analyzer, y, n)
            r2 == get_top_n_emitting_countries([Analyzer EXCEPT !.data = other], y, n)
            p1 == PositionsOf(d, r1)
            p2 == PositionsOf(other, r2)
        IN /\ EmissionsOf(r1) = EmissionsOf(r2)
           /\ \A i \in 1..Len(r1) :
                 (\A j \in 1..Len(r2) : p2[j] # p1[i]) => r1[i][1] = r1[Len(r1)][1]

\* A call with n = 2 on three countries has returned, and with other names for
\* the same series it would have returned a different set of scan positions.
C17_Witness ==
    /\ last.op = "top_n"
    /\ last.n = 2
    /\ Len(country_emission_data) = 3
    /\ last.result = get_top_n_emitting_countries(Analyzer, last.year, last.n)
    /\ \E f \in Renamings :
          LET d == country_emission_data
              other == Renamed(d, f)
              r2 == get_top_n_emitting_countries([Analyzer EXCEPT !.data = other],
                                                 last.year, last.n)
          IN {VisitPos(d, last.result[i][2]) : i \in 1..Len(last.result)}
               # {VisitPos(other, r2[i][2]) : i \in 1..Len(r2)}

----------------------------------------------------------------------------
\* The list without its k-th entry
Without(list, k) == [i \in 1..(Len(list) - 1) |-> IF i < k THEN list[i] ELSE list[i + 1]]

\* The series of a country before the last call, empty when it was not a key
SeriesBefore(country) ==
    IF country \in Keys(pre.data) THEN DictItem(pre.data, country) ELSE << >>

(* C18: insert_new_emission_record succeeds for every (country, year, emission):
   the country is a key afterwards, appended to the keys if it was not one; its
   series is the one before (empty if it was no key) with exactly one entry
   (year, emission) more, also when the year was already there; the total of the
   year is the one before (0 if absent) plus emission; (country, year, emission)
   is on top of the undo stack; every other series, every other total and the
   rest of the stack are unchanged. *)
C18_InsertFrame ==
    last.op = "insert" =>
        LET c == last.country
            y == last.year
            e == last.emission
            d == country_emission_data
            old == SeriesBefore(c)
        IN /\ last.outcome = "ok"
           /\ c \in Keys(d)
           /\ [i \in 1..Len(d) |-> d[i].country]
                = IF c \in Keys(pre.data)
                  THEN [i \in 1..Len(pre.data) |-> pre.data[i].country]
                  ELSE Append([i \in 1..Len(pre.data) |-> pre.data[i].country], c)
           /\ Len(DictItem(d, c)) = Len(old) + 1
           /\ \E k \in 1..Len(DictItem(d, c)) :
                 /\ DictItem(d, c)[k] = EmissionNode(y, e)
                 /\ Without(DictItem(d, c), k) = old
           /\ \A i \in 1..Len(pre.data) :
                 pre.data[i].country # c => d[i].list = pre.data[i].list
           /\ DOMAIN global_yearly_totals = DOMAIN pre.totals \cup {y}
           /\ global_yearly_totals[y]
                = (IF y \in DOMAIN pre.totals THEN pre.totals[y] ELSE 0) + e
           /\ \A y2 \in DOMAIN pre.totals :
                 y2 # y => global_yearly_totals[y2] = pre.totals[y2]
           /\ undo_stack = Append(pre.stack, <<"insert", c, y, e>>)

\* An insert for a year its country's series already had, with another country,
\* another year's total and an older stack entry in place.
C18_Witness ==
    /\ last.op = "insert"
    /\ HasYear(SeriesBefore(last.country), last.year)
    /\ Len(DictItem(country_emission_data, last.country)) = 2
    /\ Len(pre.data) = 2
    /\ pre.stack # << >>
    /\ \E y2 \in DOMAIN pre.totals : y2 # last.year

----------------------------------------------------------------------------
(* C19: for every series and every (year, emission), remove_node returns True
   exactly when the series has an entry equal to (year, emission); then the list
   is the series without the first such entry, the other entries in their
   order; otherwise the list is the series unchanged. *)
C19_RemoveNode ==
    \A list \in AllSeries, y \in Years, e \in Emissions :
        LET r == remove_node(list, y, e)
            matches == {k \in 1..Len(list) : list[k] = EmissionNode(y, e)}
        IN /\ r.found <=> matches # {}
           /\ r.found => r.list = Without(list, FirstIndex(matches, 0))
           /\ ~r.found => r.list = list

\* An undo has just removed the first of two equal entries of a three-entry
\* series whose head is a different entry.
C19_Witness ==
    /\ last.op = "undo"
    /\ last.outcome = "undone"
    /\ LET old == SeriesBefore(last.country)
           node == EmissionNode(last.year, last.emission)
       IN /\ Len(old) = 3
          /\ old[1] # node
          /\ old[2] = node
          /\ old[3] = node
          /\ DictItem(country_emission_data, last.country) = <<old[1], old[3]>>

----------------------------------------------------------------------------
(* C20: when undo_last_insertion pops an entry whose country is no key, or whose
   (year, emission) equals no entry of the country's series, it reports the
   inconsistency (not a success, not an empty stack), the popped entry is gone
   from the stack, and the series and the yearly totals are as before. *)
C20_UndoInconsistency ==
    (last.op = "undo" /\ pre.stack # << >>) =>
        LET top == pre.stack[Len(pre.stack)]
            absent == top[2] \notin Keys(pre.data)
            unmatched == /\ ~absent
                         /\ \A k \in 1..Len(DictItem(pre.data, top[2])) :
                               DictItem(pre.data, top[2])[k] # EmissionNode(top[3], top[4])
        IN (absent \/ unmatched) =>
              /\ absent => last.outcome = "country_not_found"
              /\ unmatched => last.outcome = "record_not_found"
              /\ Append(undo_stack, top) = pre.stack
              /\ country_emission_data = pre.data
              /\ global_yearly_totals = pre.totals

\* Two undos in a row have met an inconsistent entry on an analyzer that holds
\* data: the first for an entry with no equal in its country's series, the
\* second for a country that is no key.
C20_Witness ==
    /\ last.op = "undo"
    /\ last.outcome = "country_not_found"
    /\ prev.op = "undo"
    /\ prev.outcome = "record_not_found"
    /\ NodeCount(country_emission_data) >= 2
    /\ country_emission_data = pre.data
    /\ global_yearly_totals = pre.totals
    /\ Len(undo_stack) = Len(pre.stack) - 1

----------------------------------------------------------------------------
(* C21: no call removes a key of country_emission_data, and the keys keep their
   order; an insert leaves its country a key; a successful undo leaves its
   country a key, and when it removed the only entry the country stays with an
   empty list, for which search_emissions_by_country returns the empty list. *)
C21_CountriesNeverRemoved ==
    /\ Len(pre.data) <= Len(country_emission_data)
    /\ \A i \in 1..Len(pre.data) : country_emission_data[i].country = pre.data[i].country
    /\ last.op = "insert" => last.country \in Keys(country_emission_data)
    /\ (last.op = "undo" /\ last.outcome = "undone") =>
          /\ last.country \in Keys(country_emission_data)
          /\ Len(DictItem(pre.data, last.country)) = 1
                => /\ DictItem(country_emission_data, last.country) = << >>
                   /\ search_emissions_by_country(Analyzer, last.country) = << >>

\* An undo has just removed the only entry of a country that an insert had made
\* a key; the other country keeps its data.
C21_Witness ==
    /\ last.op = "undo"
    /\ last.outcome = "undone"
    /\ prev.op = "insert"
    /\ last.country \notin Keys(prev.pre.data)
    /\ last.country \in Keys(country_emission_data)
    /\ DictItem(country_emission_data, last.country) = << >>
    /\ NodeCount(country_emission_data) >= 1

----------------------------------------------------------------------------
(* C22: for every series, find_max_emission_year returns (None, None) when the
   series is empty; otherwise it returns the year and emission of the first entry,
   in series order, whose emission is greater than or equal to every entry's
   emission. *)
C22_FindMax ==
    \A list \in AllSeries :
        LET r == find_max_emission_year(list)
        IN IF list = << >>
           THEN r = << >>
           ELSE \E k \in 1..Len(list) :
                   /\ r = <<list[k].year, list[k].emission>>
                   /\ \A j \in 1..Len(list) : list[j].emission <= list[k].emission
                   /\ \A j \in 1..(k - 1) : list[j].emission < list[k].emission

\* The call has just answered for a series of three entries whose greatest
\* emission is shared by the second and the third, of different years.
C22_Witness ==
    /\ last.op = "find_max"
    /\ LET list == DictItem(country_emission_data, last.country)
       IN /\ Len(list) = 3
          /\ list[1].emission < list[2].emission
          /\ list[2].emission = list[3].emission
          /\ list[2].year # list[3].year
          /\ last.result = <<list[2].year, list[2].emission>>

----------------------------------------------------------------------------
\* How many undo_stack entries record an insert of (country, year, emission), and
\* how many entries of the country's list equal (year, emission)
LoggedCount(country, year, emission) ==
    Cardinality({i \in 1..Len(undo_stack) :
                    undo_stack[i] = <<"insert", country, year, emission>>})

StoredCount(country, year, emission) ==
    IF country \in Keys(country_emission_data)
    THEN LET list == DictItem(country_emission_data, country)
         IN Cardinality({k \in 1..Len(list) : list[k] = EmissionNode(year, emission)})
    ELSE 0

(* C23: in every state reached by the load and by inserts and undos, for every
   (country, year, emission) the country's list holds at least as many entries
   equal to (year, emission) as undo_stack holds entries for them, and a country
   named on undo_stack is a key; every undo on a non-empty stack ends with the
   removal done, never with "record not found" or "country not found". *)
C23_LogMatchesSeries ==
    /\ \A c \in AllNames, y \in Years, e \in Emissions :
          /\ LoggedCount(c, y, e) <= StoredCount(c, y, e)
          /\ LoggedCount(c, y, e) > 0 => c \in Keys(country_emission_data)
    /\ \A i \in 1..Len(undo_stack) :
          /\ undo_stack[i][1] = "insert"
          /\ undo_stack[i][2] \in Countries
    /\ (last.op = "undo" /\ pre.stack # << >>) => last.outcome = "undone"

\* An undo has just succeeded for an entry that undo_stack still holds once
\* more, and the list still holds an equal entry.
C23_Witness ==
    /\ last.op = "undo"
    /\ last.outcome = "undone"
    /\ LoggedCount(last.country, last.year, last.emission) = 1
    /\ StoredCount(last.country, last.year, last.emission) >= 1
    /\ Len(pre.stack) = 3

----------------------------------------------------------------------------
(* C24: when insert_new_emission_record(c, y, e) is followed at once by
   undo_last_insertion, search_emissions_by_country(c) returns the sequence it
   returned before the insert, also when the series already had entries of year y
   or an entry equal to (y, e); and for every series and every (y, e),
   remove_node after insert_chronologically gives back the series. *)
C24_InsertUndoKeepsSequence ==
    /\ (last.op = "undo" /\ prev.op = "insert") =>
          search_emissions_by_country(Analyzer, last.country)
             = search_emissions_by_country(prev.pre, last.country)
    /\ \A list \in AllSeries, y \in Years, e \in Emissions :
          LET r == remove_node(insert_chronologically(list, y, e), y, e)
          IN r.found /\ r.list = list

\* Insert then undo on a series whose head already equalled (y, e) and was
\* followed by a different entry of the same year: the node unlinked is the old
\* head, not the new node.
C24_Witness ==
    /\ last.op = "undo"
    /\ last.outcome = "undone"
    /\ prev.op = "insert"
    /\ last.country \in Keys(prev.pre.data)
    /\ LET old == DictItem(prev.pre.data, last.country)
       IN /\ Len(old) = 2
          /\ old[1] = EmissionNode(last.year, last.emission)
          /\ old[2].year = last.year
          /\ old[2] # old[1]
          /\ DictItem(country_emission_data, last.country) = old

----------------------------------------------------------------------------
(* C25: for every year and n > 0, no country appears twice in the list that
   get_top_n_emitting_countries returns, every returned country is a key with an
   entry of the year, and the emission returned with it is that of the first
   entry of the year in its series, also when the series has several. *)
C25_OneEntryPerCountry ==
    \A y \in Years : \A n \in PositiveN :
        LET r == get_top_n_emitting_countries(Analyzer, y, n)
            d == country_emission_data
        IN /\ \A i, j \in 1..Len(r) : r[i][2] = r[j][2] => i = j
           /\ \A i \in 1..Len(r) :
                 /\ r[i][2] \in Keys(d)
                 /\ HasYear(DictItem(d, r[i][2]), y)
                 /\ r[i][1] = FirstOfYear(DictItem(d, r[i][2]), y).emission

\* A call has returned a country whose series has two entries of the year with
\* different emissions, the smaller one first, next to another country.
C25_Witness ==
    /\ last.op = "top_n"
    /\ Len(last.result) = 2
    /\ \E i \in 1..2 :
          LET list == DictItem(country_emission_data, last.result[i][2])
          IN /\ Len(list) = 2
             /\ list[1].year = last.year
             /\ list[2].year = last.year
             /\ list[1].emission < list[2].emission
             /\ last.result[i][1] = list[1].emission

----------------------------------------------------------------------------
(* C26: no call removes a key of global_yearly_totals; a loaded row and an insert
   leave their year a key; for every key get_total_emissions_per_year returns a
   total, never None, and the total is 0 when no series has an entry of the year
   any more; so an insert of a year that was no key, undone at once, leaves the
   year with the total 0. *)
C26_YearsNeverRemoved ==
    /\ DOMAIN pre.totals \subseteq DOMAIN global_yearly_totals
    /\ last.op \in {"load_row", "insert"} => last.year \in DOMAIN global_yearly_totals
    /\ \A y \in DOMAIN global_yearly_totals :
          /\ get_total_emissions_per_year(Analyzer, y) # << >>
          /\ ~YearPresent(country_emission_data, y)
                => get_total_emissions_per_year(Analyzer, y) = <<0>>
    /\ (last.op = "undo" /\ prev.op = "insert" /\ last.year \notin DOMAIN prev.pre.totals)
          => get_total_emissions_per_year(Analyzer, last.year) = <<0>>

\* The total of a year has just been asked for after an undo removed the last
\* entry of that year, and the answer was 0; another year still has data.
C26_Witness ==
    /\ last.op = "total"
    /\ last.result = <<0>>
    /\ prev.op = "undo"
    /\ prev.outcome = "undone"
    /\ ~YearPresent(country_emission_data, last.year)
    /\ NodeCount(country_emission_data) >= 1

====
